---- MODULE Spec2Model ----
(***************************************************************************)
(* Model of the trident adapter (adapter/trident_adapter.go): the per      *)
(* (trident, dispatcher) reorder window cacheLookup, the adapter's         *)
(* findAndAdd with its counters, the receive loop run with the packet      *)
(* buffer pool, and the dispatch hash calcHash.                            *)
(*                                                                         *)
(* Time is counted in seconds: a timestamp t of the model is the           *)
(* time.Duration t * time.Second of the code.                              *)
(***************************************************************************)
EXTENDS Integers, Sequences, FiniteSets, TLC

(***************************************************************************)
(* Bounds of the model.                                                    *)
(***************************************************************************)
MaxSeq == 5          \* sequence numbers of received packets are 1..MaxSeq
MaxTs == 4           \* timestamps of received packets are 1..MaxTs
MaxCacheSize == 4    \* the configured cacheSize is 0..MaxCacheSize
MaxPackets == 3      \* buffers acquired in one behaviour
MaxPerm == 4         \* a permuted feed has the packets 1..K, K <= MaxPerm
MaxFeed == 7         \* a feed with one omission is 1..K less one, K <= MaxFeed
MaxRunSeq == 2       \* sequence numbers read by the receive loop
MaxSlavesLog == 2    \* the adapter has 2^k slaves, k <= MaxSlavesLog
MaxFanSeq == 3       \* sequence numbers sent by the several tridents
MaxFanPackets == 4   \* packets received from the several tridents
MaxDelta == 2        \* a configured cache size is within MaxDelta of 2^k
MaxOrder == 5        \* a feed in sequence order has up to MaxOrder packets
MaxJump == 10        \* a jump reaches MaxJump * cacheSize past the start seq
MaxJumpPackets == 3  \* packets received by a window that sees jumps

(***************************************************************************)
(* Program constants.                                                      *)
(***************************************************************************)
TRIDENT_TIMEOUT == 2
TRIDENT_DISPATCHER_MAX == 16
BATCH_SIZE == 128
MAX_SHIFT == 30      \* minPowerOfTwo: the largest result is 1 << 30

\* a nil *packetBuffer
Nil == [nil |-> TRUE]

(***************************************************************************)
(* Bit operations on naturals (uint8 / uint32 / uint64 operands).          *)
(***************************************************************************)
RECURSIVE BitAnd(_, _)
BitAnd(a, b) ==
    IF a = 0 \/ b = 0 THEN 0
    ELSE (a % 2) * (b % 2) + 2 * BitAnd(a \div 2, b \div 2)

RECURSIVE BitXor(_, _)
BitXor(a, b) ==
    IF a = 0 THEN b
    ELSE IF b = 0 THEN a
    ELSE ((a + b) % 2) + 2 * BitXor(a \div 2, b \div 2)

RECURSIVE Pow2(_)
Pow2(n) == IF n = 0 THEN 1 ELSE 2 * Pow2(n - 1)

Shr(a, n) == a \div Pow2(n)

\* uint8(x)
Uint8(x) == x % 256

(***************************************************************************)
(* packetBuffer.calcHash: the hash of (tridentIp, tridentDispatcherIndex). *)
(***************************************************************************)
calcHash(tridentIp, index) ==
    LET hash == BitXor(tridentIp, index)
        h8 == BitXor(BitXor(Uint8(Shr(hash, 24)), Uint8(Shr(hash, 16))),
                     BitXor(Uint8(Shr(hash, 8)), Uint8(hash)))
    IN BitXor(BitXor(Shr(h8, 6), Shr(h8, 4)), BitXor(Shr(h8, 2), h8))

(***************************************************************************)
(* minPowerOfTwo: the cache size the adapter is built with.                *)
(***************************************************************************)
\* minPowerOfTwoFrom with the slip of < for <=.
RECURSIVE minPowerOfTwoFromStrict(_, _)
minPowerOfTwoFromStrict(v, i) ==
    IF i >= 30 THEN Pow2(30)
    ELSE IF v < Pow2(i) THEN Pow2(i)
    ELSE minPowerOfTwoFromStrict(v, i + 1)

RECURSIVE minPowerOfTwoFrom(_, _)
minPowerOfTwoFrom(v, i) ==
    IF i >= 30 THEN Pow2(30)
    ELSE IF v <= Pow2(i) THEN Pow2(i)
    ELSE minPowerOfTwoFrom(v, i + 1)

minPowerOfTwo(v) == minPowerOfTwoFrom(v, 0)

(***************************************************************************)
(* slaves[p.hash & uint8(len(slaves)-1)].put(p): the index of the slave a  *)
(* packet is put to, and the record of the put.                            *)
(***************************************************************************)
\* SlaveIndex with the slip of masking by len(slaves) for len(slaves) - 1.
SlaveIndexNoMinus(hash, slaveCount) == BitAnd(hash, Uint8(slaveCount))

SlaveIndex(hash, slaveCount) == BitAnd(hash, Uint8(slaveCount - 1))

Put(p, slaveCount) ==
    [seq |-> p.seq, timestamp |-> p.timestamp, tridentIp |-> p.tridentIp,
     index |-> p.index, slave |-> SlaveIndex(p.hash, slaveCount)]

(***************************************************************************)
(* tridentDispatcher.  The zero value has nil slices; findAndAdd makes     *)
(* cache and timestamp of length cacheSize, indexed 0..cacheSize-1.        *)
(***************************************************************************)
ZeroDispatcher ==
    [cache |-> <<>>, timestamp |-> <<>>, maxTimestamp |-> 0,
     dropped |-> 0, seq |-> 0, startIndex |-> 0]

MakeDispatcher(d, cacheSize) ==
    [d EXCEPT !.cache = [i \in 0..(cacheSize - 1) |-> Nil],
              !.timestamp = [i \in 0..(cacheSize - 1) |-> 0]]

\* x & (cacheSize - 1) on uint64, cacheSize a power of two; x may be the
\* wrapped-around i - 1 of an i = 0.
Mask(x, cacheSize) == x % cacheSize

(***************************************************************************)
(* cacheLookup, lines 160-173: a restart purges the window.                *)
(***************************************************************************)
RestartPurge(d, seq, cacheSize) ==
    [d EXCEPT !.cache = [i \in 0..(cacheSize - 1) |-> Nil],
              !.timestamp = [i \in 0..(cacheSize - 1) |-> 0],
              !.seq = IF seq > cacheSize THEN seq - cacheSize ELSE 1,
              !.startIndex = 0]

(***************************************************************************)
(* One step of either flush loop: the slot the loops zero the timestamp    *)
(* of, given the loop counter i and the head of the window.                *)
(***************************************************************************)
FlushedSlot(i, startIndex) == i

\* Advance with the slip of leaving the flushed packet in its slot.
AdvanceKeep(d, i, cacheSize) ==
    [d EXCEPT !.timestamp[FlushedSlot(i, d.startIndex)] = 0,
              !.seq = @ + 1,
              !.startIndex = Mask(@ + 1, cacheSize)]

\* seq++, startIndex = (startIndex + 1) & (cacheSize - 1), with the head
\* slot emptied and the timestamp of FlushedSlot zeroed.
Advance(d, i, cacheSize) ==
    [d EXCEPT !.cache[d.startIndex] = Nil,
              !.timestamp[FlushedSlot(i, d.startIndex)] = 0,
              !.seq = @ + 1,
              !.startIndex = Mask(@ + 1, cacheSize)]

(***************************************************************************)
(* cacheLookup, lines 188-201: flush until the packet fits.  s is the      *)
(* state of the call: the dispatcher, offset, dropped and the puts.        *)
(***************************************************************************)
\* ForcedFlush with the slip of not counting the empty slots it passes.
RECURSIVE ForcedFlushUncounted(_, _, _, _)
ForcedFlushUncounted(s, i, cacheSize, slaveCount) ==
    IF i < cacheSize /\ s.offset >= cacheSize
    THEN LET p == s.d.cache[s.d.startIndex]
         IN ForcedFlushUncounted(
              [d |-> Advance(s.d, i, cacheSize),
               offset |-> s.offset - 1,
               dropped |-> s.dropped,
               out |-> IF p # Nil THEN Append(s.out, Put(p, slaveCount))
                       ELSE s.out],
              i + 1, cacheSize, slaveCount)
    ELSE s

RECURSIVE ForcedFlush(_, _, _, _)
ForcedFlush(s, i, cacheSize, slaveCount) ==
    IF i < cacheSize /\ s.offset >= cacheSize
    THEN LET p == s.d.cache[s.d.startIndex]
         IN ForcedFlush(
              [d |-> Advance(s.d, i, cacheSize),
               offset |-> s.offset - 1,
               dropped |-> IF p # Nil THEN s.dropped ELSE s.dropped + 1,
               out |-> IF p # Nil THEN Append(s.out, Put(p, slaveCount))
                       ELSE s.out],
              i + 1, cacheSize, slaveCount)
    ELSE s

\* GapAdvance with the slip of a gap one short.
GapAdvanceShort(s, cacheSize) ==
    IF s.offset >= cacheSize
    THEN LET gap == s.offset - cacheSize
         IN [s EXCEPT !.d.seq = @ + gap,
                      !.d.startIndex = Mask(@ + gap, cacheSize),
                      !.dropped = @ + gap,
                      !.offset = @ - gap]
    ELSE s

\* GapAdvance with the slip of not counting the gap as dropped.
GapAdvanceUncounted(s, cacheSize) ==
    IF s.offset >= cacheSize
    THEN LET gap == s.offset - cacheSize + 1
         IN [s EXCEPT !.d.seq = @ + gap,
                      !.d.startIndex = Mask(@ + gap, cacheSize),
                      !.offset = @ - gap]
    ELSE s

\* lines 202-208
GapAdvance(s, cacheSize) ==
    IF s.offset >= cacheSize
    THEN LET gap == s.offset - cacheSize + 1
         IN [s EXCEPT !.d.seq = @ + gap,
                      !.d.startIndex = Mask(@ + gap, cacheSize),
                      !.dropped = @ + gap,
                      !.offset = @ - gap]
    ELSE s

(***************************************************************************)
(* cacheLookup, lines 214-220: the worst timestamp of the packets still    *)
(* awaited before slot i.                                                  *)
(***************************************************************************)
RECURSIVE BackPropagate(_, _, _, _)
BackPropagate(d, i, timestamp, cacheSize) ==
    IF i = d.startIndex THEN d
    ELSE LET j == Mask(i - 1, cacheSize)
         IN IF d.cache[j] # Nil THEN d
            ELSE BackPropagate([d EXCEPT !.timestamp[j] = timestamp],
                               j, timestamp, cacheSize)

\* Place with the slip of indexing the ring by offset alone.
PlaceNoStart(s, packet, cacheSize) ==
    LET current == Mask(s.offset, cacheSize)
        d1 == [s.d EXCEPT !.cache[current] = packet,
                          !.timestamp[current] = packet.timestamp]
    IN [s EXCEPT !.d = BackPropagate(d1, current, packet.timestamp, cacheSize)]

\* lines 211-220
Place(s, packet, cacheSize) ==
    LET current == Mask(s.d.startIndex + s.offset, cacheSize)
        d1 == [s.d EXCEPT !.cache[current] = packet,
                          !.timestamp[current] = packet.timestamp]
    IN [s EXCEPT !.d = BackPropagate(d1, current, packet.timestamp, cacheSize)]

(***************************************************************************)
(* cacheLookup, lines 223-239: flush until a gap that has not timed out.   *)
(***************************************************************************)
\* TailFlush with the slip of one iteration fewer than cacheSize.
RECURSIVE TailFlushShort(_, _, _, _, _)
TailFlushShort(s, i, timestamp, cacheSize, slaveCount) ==
    IF i >= cacheSize - 1 THEN s
    ELSE LET p == s.d.cache[s.d.startIndex]
         IN IF p # Nil
            THEN TailFlushShort(
                   [s EXCEPT !.d = Advance(s.d, i, cacheSize),
                             !.out = Append(@, Put(p, slaveCount))],
                   i + 1, timestamp, cacheSize, slaveCount)
            ELSE IF s.d.timestamp[s.d.startIndex] = 0 THEN s
            ELSE IF timestamp - s.d.timestamp[s.d.startIndex] > TRIDENT_TIMEOUT
            THEN TailFlushShort([s EXCEPT !.d = Advance(s.d, i, cacheSize),
                                          !.dropped = @ + 1],
                                i + 1, timestamp, cacheSize, slaveCount)
            ELSE s

RECURSIVE TailFlush(_, _, _, _, _)
\* TailFlush with the slip of flushing the head slot only.
TailFlushOnce(s, i, timestamp, cacheSize, slaveCount) ==
    LET p == s.d.cache[s.d.startIndex]
    IN IF p # Nil
       THEN [s EXCEPT !.d = Advance(s.d, i, cacheSize),
                      !.out = Append(@, Put(p, slaveCount))]
       ELSE s

TailFlush(s, i, timestamp, cacheSize, slaveCount) ==
    IF i >= cacheSize THEN s
    ELSE LET p == s.d.cache[s.d.startIndex]
         IN IF p # Nil
            THEN TailFlush([s EXCEPT !.d = Advance(s.d, i, cacheSize),
                                     !.out = Append(@, Put(p, slaveCount))],
                           i + 1, timestamp, cacheSize, slaveCount)
            ELSE IF s.d.timestamp[s.d.startIndex] = 0 THEN s
            ELSE IF timestamp - s.d.timestamp[s.d.startIndex] > TRIDENT_TIMEOUT
            THEN TailFlush([s EXCEPT !.d = Advance(s.d, i, cacheSize),
                                     !.dropped = @ + 1],
                           i + 1, timestamp, cacheSize, slaveCount)
            ELSE s

\* IsRestart with the slip of >= for >.
IsRestartGeq(d, seq, timestamp) == seq < d.seq /\ timestamp >= d.maxTimestamp

\* IsRestart with the slip of taking every backward packet for a restart.
IsRestartBackward(d, seq, timestamp) == seq < d.seq

\* line 155: a backward packet with a larger timestamp is a restart
IsRestart(d, seq, timestamp) == seq < d.seq /\ timestamp > d.maxTimestamp

CachedCount(d) == Cardinality({i \in DOMAIN d.cache : d.cache[i] # Nil})

\* line 183: the largest timestamp received
UpdateMaxTimestamp(maxTimestamp, timestamp) ==
    IF timestamp > maxTimestamp THEN timestamp ELSE maxTimestamp

(***************************************************************************)
(* cacheLookup(dispatcher, packet, cacheSize, slaves).  The result holds   *)
(* the dispatcher after the call, the two values returned (dropped,        *)
(* expired), the packets put to the slaves in order (out), the number of   *)
(* buffers released to the pool, and the branch taken (kind).  For the     *)
(* record of the call it also holds the start seq after the first packet   *)
(* or a restart has seated it (base), offset = seq - dispatcher.seq of     *)
(* line 188 (offset), the positions the head moved before the packet was   *)
(* placed (forced), those of them moved by the bulk branch (gap) and the   *)
(* offset the packet was placed at (placed).                               *)
(***************************************************************************)
cacheLookup(dispatcher, packet, cacheSize, slaveCount) ==
    LET seq == packet.seq
        timestamp == packet.timestamp
        d0 == IF dispatcher.seq = 0 THEN [dispatcher EXCEPT !.seq = seq]
              ELSE dispatcher
        backward == seq < d0.seq
        restart == IsRestart(d0, seq, timestamp)
    IN IF backward /\ ~restart
       THEN [d |-> d0, dropped |-> 0, expired |-> 1, out |-> <<>>,
             released |-> 1, kind |-> "stale", base |-> d0.seq,
             offset |-> 0, forced |-> 0, gap |-> 0, placed |-> 0]
       ELSE LET d1 == IF restart THEN RestartPurge(d0, seq, cacheSize) ELSE d0
                d2 == [d1 EXCEPT !.maxTimestamp =
                                    UpdateMaxTimestamp(@, timestamp)]
                s0 == [d |-> d2, offset |-> seq - d2.seq, dropped |-> 0,
                       out |-> <<>>]
                sf == ForcedFlush(s0, 0, cacheSize, slaveCount)
                s1 == GapAdvance(sf, cacheSize)
                s2 == Place(s1, packet, cacheSize)
                s3 == TailFlush(s2, 0, timestamp, cacheSize, slaveCount)
            IN [d |-> [s3.d EXCEPT !.dropped = @ + s3.dropped],
                dropped |-> s3.dropped, expired |-> 0, out |-> s3.out,
                released |-> IF restart THEN CachedCount(d0) ELSE 0,
                kind |-> IF restart THEN "restart" ELSE "insert",
                base |-> d2.seq, offset |-> s0.offset,
                forced |-> s1.d.seq - d2.seq, gap |-> s1.d.seq - sf.d.seq,
                placed |-> s1.offset]

(***************************************************************************)
(* The adapter.  A datagram read from the socket carries the trident       *)
(* header (seq, timestamp, dispatcher index) and comes from tridentIp;     *)
(* wellFormed tells whether its header follows the published layout.       *)
(***************************************************************************)
VARIABLES
    configured,    \* the cacheSize argument of NewTridentAdapter
    cacheSize,     \* TridentAdapter.cacheSize
    slaveCount,    \* TridentAdapter.slaveCount = len(slaves)
    instances,     \* TridentAdapter.instances: tridentIp -> tridentInstance
    counter,       \* statsCounter.counter (statsCounter.stats is updated alike)
    batch,         \* run: the packets read and not yet processed
    pc,            \* run: "read" in the read loop, "process" in the batch loop
    pool,          \* packetBufferPool: buffers acquired and released so far
    delivered,     \* number of slave.put calls so far
    pkt,           \* the packet of the last findAndAdd call
    ret,           \* what the last cacheLookup call returned, put and released
    lastPut,       \* per window: seq of the last packet put to a slave
    epochPut,      \* per window: the same, among the puts since its last restart
    restartMax,    \* per window: maxTimestamp just before its last restart
    feed,          \* a scripted feed: datagrams still to arrive
    outAll,        \* a scripted feed: seqs put to the slaves so far
    l3Packet,      \* the byte slice handed to TunnelInfo.Decapsulate
    sent,          \* what the sender of l3Packet encapsulated
    tunnel         \* the TunnelInfo

vars == <<configured, cacheSize, slaveCount, instances, counter, batch, pc,
          pool, delivered,
          pkt, ret, lastPut, epochPut, restartMax, feed, outAll,
          l3Packet, sent, tunnel>>

\* the variables of the decapsulator
tunnelVars == <<l3Packet, sent, tunnel>>

IPv4(a, b, c, d) == ((a * 256 + b) * 256 + c) * 256 + d

\* two tridents: 10.0.0.1 and 2.2.2.2
Trident1 == IPv4(10, 0, 0, 1)
Trident2 == IPv4(2, 2, 2, 2)

(***************************************************************************)
(* TunnelInfo.Decapsulate.  l3Packet is the byte slice that begins at the  *)
(* outer IPv4 header, indexed from 0.  The offsets are counted from the    *)
(* start of the Ethernet frame; the caller has stripped ETH_HEADER_SIZE.   *)
(***************************************************************************)
ETH_HEADER_SIZE == 14
IP_HEADER_SIZE == 20
UDP_HEADER_SIZE == 8
GRE_HEADER_SIZE == 4
VXLAN_HEADER_SIZE == 8
ERSPANII_HEADER_SIZE == 8
ERSPANIII_HEADER_SIZE == 12
OFFSET_IP_PROTOCOL == 23
OFFSET_SIP == 26
OFFSET_DIP == 30
OFFSET_DPORT == 36
OFFSET_GRE_PROTOCOL_TYPE == 36
OFFSET_ERSPAN == 38
OFFSET_VXLAN_FLAGS == 42
OFFSET_VXLAN_VNI == 46
IPProtocolTCP == 6
IPProtocolUDP == 17
IPProtocolGRE == 47
VXLAN_PORT == 4789
VXLAN_FLAGS == 8
GRE_PROTO_ERSPAN_II == 35006     \* 0x88BE
GRE_PROTO_ERSPAN_III == 8939     \* 0x22EB
ERSPAN_ID_MASK == 1023           \* the 10 bits of the session id

TunnelInfo(src, dst, id, type) ==
    [Src |-> src, Dst |-> dst, Id |-> id, Type |-> type]

\* &TunnelInfo{}
DefaultTunnel == TunnelInfo(0, 0, 0, "NONE")

\* BigEndian.Uint16 / Uint32 / the 24 bits of a VNI, at offset off of slice p
Uint16At(p, off) == p[off] * 256 + p[off + 1]
Uint24At(p, off) == (p[off] * 256 + p[off + 1]) * 256 + p[off + 2]
Uint32At(p, off) == Uint24At(p, off) * 256 + p[off + 3]

SliceLen(p) == Cardinality(DOMAIN p)

DecapsulateGre(p) ==
    LET type == Uint16At(p, OFFSET_GRE_PROTOCOL_TYPE - ETH_HEADER_SIZE)
        src == Uint32At(p, OFFSET_SIP - ETH_HEADER_SIZE)
        dst == Uint32At(p, OFFSET_DIP - ETH_HEADER_SIZE)
        erspan == OFFSET_ERSPAN - ETH_HEADER_SIZE
    IN IF type = GRE_PROTO_ERSPAN_II
       THEN IF SliceLen(p) < erspan + ERSPANII_HEADER_SIZE THEN DefaultTunnel
            ELSE TunnelInfo(src, dst,
                            BitAnd(Uint16At(p, erspan), ERSPAN_ID_MASK),
                            "ERSPAN")
       ELSE IF type = GRE_PROTO_ERSPAN_III
       THEN IF SliceLen(p) < erspan + ERSPANIII_HEADER_SIZE THEN DefaultTunnel
            ELSE TunnelInfo(src, dst, 0, "ERSPAN")
       ELSE DefaultTunnel

DecapsulateVxlan(p) ==
    LET flags == OFFSET_VXLAN_FLAGS - ETH_HEADER_SIZE
    IN IF SliceLen(p) < flags + VXLAN_HEADER_SIZE THEN DefaultTunnel
       ELSE IF Uint16At(p, OFFSET_DPORT - ETH_HEADER_SIZE) # VXLAN_PORT
       THEN DefaultTunnel
       ELSE IF BitAnd(p[flags], VXLAN_FLAGS) = 0 THEN DefaultTunnel
       ELSE TunnelInfo(Uint32At(p, OFFSET_SIP - ETH_HEADER_SIZE),
                       Uint32At(p, OFFSET_DIP - ETH_HEADER_SIZE),
                       Uint24At(p, OFFSET_VXLAN_VNI - ETH_HEADER_SIZE),
                       "VXLAN")

Decapsulate(p) ==
    IF SliceLen(p) < IP_HEADER_SIZE + GRE_HEADER_SIZE THEN DefaultTunnel
    ELSE LET protocol == p[OFFSET_IP_PROTOCOL - ETH_HEADER_SIZE]
         IN IF protocol = IPProtocolGRE THEN DecapsulateGre(p)
            ELSE IF protocol = IPProtocolUDP THEN DecapsulateVxlan(p)
            ELSE DefaultTunnel

Seqs == 1..MaxSeq
Timestamps == 1..MaxTs

Datagram(ip, index, seq, timestamp, wellFormed) ==
    [tridentIp |-> ip, index |-> index, seq |-> seq, timestamp |-> timestamp,
     wellFormed |-> wellFormed]

\* SequentialDecoder.DecodeHeader: invalid
DecodeHeader(dg) == ~dg.wellFormed \/ dg.index >= TRIDENT_DISPATCHER_MAX

\* run, lines 315 and 326: packet.init(ip), decode, calcHash
PacketBuffer(dg) ==
    [seq |-> dg.seq, timestamp |-> dg.timestamp, tridentIp |-> dg.tridentIp,
     index |-> dg.index, hash |-> calcHash(dg.tridentIp, dg.index)]

NoInstance == <<>>

NewInstance == [i \in 0..(TRIDENT_DISPATCHER_MAX - 1) |-> ZeroDispatcher]

\* the dispatcher of (ip, index) as findAndAdd finds or makes it
DispatcherOf(inst, ip, index, size) ==
    LET instance == IF inst[ip] = NoInstance THEN NewInstance ELSE inst[ip]
        d == instance[index]
    IN IF d.cache = <<>> THEN MakeDispatcher(d, size) ELSE d

\* the dispatcher of (ip, index) as it is, the zero value when there is none
Window(inst, ip, index) ==
    IF inst[ip] = NoInstance THEN ZeroDispatcher ELSE inst[ip][index]

(***************************************************************************)
(* TridentAdapter.findAndAdd: the instances and counters after the call,   *)
(* and the result r of its cacheLookup.                                    *)
(***************************************************************************)
findAndAdd(inst, cnt, packet, size, slaves) ==
    LET ip == packet.tridentIp
        index == packet.index
        instance == IF inst[ip] = NoInstance THEN NewInstance ELSE inst[ip]
        r == cacheLookup(DispatcherOf(inst, ip, index, size), packet, size, slaves)
    IN [instances |-> [inst EXCEPT ![ip] = [instance EXCEPT ![index] = r.d]],
        counter |-> [cnt EXCEPT !.RxPackets = @ + 1,
                                !.RxDropped = @ + r.dropped,
                                !.RxExpired = @ + r.expired],
        r |-> r]

Key(packet) == <<packet.tridentIp, packet.index>>

Last(s) == s[Len(s)]

NoRet == [kind |-> "none", dropped |-> 0, expired |-> 0, out |-> <<>>,
          released |-> 0, base |-> 0, offset |-> 0, forced |-> 0, gap |-> 0,
          placed |-> 0]

\* findAndAdd(packet) as a step of the adapter, with the bookkeeping of
\* what the call did; acquired is the number of buffers the step acquired
FindAndAddStep(packet, acquired) ==
    \E f \in {findAndAdd(instances, counter, packet, cacheSize, slaveCount)} :
    LET k == Key(packet)
    IN /\ instances' = f.instances
       /\ counter' = f.counter
       /\ delivered' = delivered + Len(f.r.out)
       /\ pool' = [acquired |-> pool.acquired + acquired,
                   released |-> pool.released + f.r.released]
       /\ pkt' = packet
       /\ ret' = [kind |-> f.r.kind, dropped |-> f.r.dropped,
                  expired |-> f.r.expired, out |-> f.r.out,
                  released |-> f.r.released, base |-> f.r.base,
                  offset |-> f.r.offset, forced |-> f.r.forced,
                  gap |-> f.r.gap, placed |-> f.r.placed]
       /\ lastPut' = IF f.r.out # <<>>
                     THEN [lastPut EXCEPT ![k] = Last(f.r.out).seq]
                     ELSE lastPut
       /\ epochPut' = IF f.r.out # <<>>
                      THEN [epochPut EXCEPT ![k] = Last(f.r.out).seq]
                      ELSE IF f.r.kind = "restart"
                      THEN [epochPut EXCEPT ![k] = 0]
                      ELSE epochPut
       /\ restartMax' =
            IF f.r.kind = "restart"
            THEN [restartMax EXCEPT ![k] =
                    Window(instances, k[1], k[2]).maxTimestamp]
            ELSE restartMax

Tridents == {Trident1, Trident2}
Indexes == {0, 1}
Keys == Tridents \X Indexes

InitAdapter(sizes, slaveCounts) ==
    /\ configured \in sizes
    /\ cacheSize = minPowerOfTwo(configured)
    /\ slaveCount \in slaveCounts
    /\ instances = [ip \in Tridents |-> NoInstance]
    /\ counter = [RxPackets |-> 0, RxDropped |-> 0, RxExpired |-> 0,
                  RxErrors |-> 0]
    /\ batch = <<>>
    /\ pc = "read"
    /\ pool = [acquired |-> 0, released |-> 0]
    /\ delivered = 0
    /\ pkt = Nil
    /\ ret = NoRet
    /\ lastPut = [k \in Keys |-> 0]
    /\ epochPut = [k \in Keys |-> 0]
    /\ restartMax = [k \in Keys |-> 0]
    /\ outAll = <<>>
    /\ l3Packet = <<>>
    /\ sent = Nil
    /\ tunnel = DefaultTunnel

(***************************************************************************)
(* Spec: one trident and dispatcher sends any packets in any order; each   *)
(* step is the pass of one valid packet through run: a buffer is acquired, *)
(* read into, decoded, hashed and handed to findAndAdd.                    *)
(***************************************************************************)
Init ==
    /\ InitAdapter(0..MaxCacheSize, {2})
    /\ feed = <<>>

Receive ==
    /\ pool.acquired < MaxPackets
    /\ \E seq \in Seqs, timestamp \in Timestamps :
          FindAndAddStep(PacketBuffer(Datagram(Trident1, 0, seq, timestamp, TRUE)), 1)
    /\ UNCHANGED <<tunnelVars, configured, cacheSize, slaveCount, batch, pc,
                   feed, outAll>>

Next == Receive

Spec == Init /\ [][Next]_vars

(***************************************************************************)
(* Properties of Spec.                                                     *)
(***************************************************************************)
\* the step is a findAndAdd call (every call counts its packet)
Called == counter'.RxPackets = counter.RxPackets + 1

\* the window of the packet of the call, before and after it
Before == Window(instances, pkt'.tridentIp, pkt'.index)
After == Window(instances', pkt'.tridentIp, pkt'.index)

PutSeqs(out) == [i \in 1..Len(out) |-> out[i].seq]

StrictlyIncreasing(s) == \A i \in 1..(Len(s) - 1) : s[i] < s[i + 1]

\* the call finds a backward packet: a restart or a stale reorder
RestartCall == pkt'.seq < Before.seq /\ pkt'.timestamp > Before.maxTimestamp
StaleCall == pkt'.seq < Before.seq /\ pkt'.timestamp <= Before.maxTimestamp

\* C1 as claimed: every packet a window puts to the slaves has a larger
\* sequence number than every packet the window put before it.
C1_AlwaysIncreasing ==
    [][Called =>
        StrictlyIncreasing(<<lastPut[Key(pkt')]>> \o PutSeqs(ret'.out))]_vars

\* C1: every packet a window puts to the slaves has a larger sequence
\* number than every packet the window put before it since the window's
\* last detected restart (the restart call itself starts the new run).
C1_IncreasingBetweenRestarts ==
    [][Called =>
        StrictlyIncreasing(
            <<IF RestartCall THEN 0 ELSE epochPut[Key(pkt')]>>
            \o PutSeqs(ret'.out))]_vars

\* a call that counted a loss and then put two cached packets, after
\* earlier puts
C1_Witness ==
    /\ ret.kind = "insert"
    /\ Len(ret.out) >= 2
    /\ ret.dropped >= 1
    /\ delivered > Len(ret.out)

\* C5: the call that detects a restart returns dropped = 0 and expired = 0
\* and leaves the window's dropped counter and RxDropped as they were.
C5_RestartCountsNoDrops ==
    [][(Called /\ RestartCall) =>
        /\ ret'.dropped = 0
        /\ ret'.expired = 0
        /\ After.dropped = Before.dropped
        /\ counter'.RxDropped = counter.RxDropped]_vars

\* C6: a packet with seq < start seq and timestamp <= maxTimestamp is
\* released and not put, the call returns (0, 1), the window is left as it
\* was, and the adapter adds 1 to RxExpired and 0 to RxDropped.
C6_StaleReorder ==
    [][(Called /\ StaleCall) =>
        /\ ret'.dropped = 0
        /\ ret'.expired = 1
        /\ ret'.out = <<>>
        /\ ret'.released = 1
        /\ pool'.released = pool.released + 1
        /\ delivered' = delivered
        /\ instances' = instances
        /\ counter' = [counter EXCEPT !.RxPackets = @ + 1,
                                      !.RxExpired = @ + 1]]_vars

\* a stale packet met a window that holds cached packets
C6_Witness ==
    /\ ret.kind = "stale"
    /\ counter.RxExpired = 1
    /\ CachedCount(Window(instances, pkt.tridentIp, pkt.index)) > 0

\* C7 as claimed: RxPackets >= RxDropped + RxExpired + delivered.
C7_CountersWithDropped ==
    counter.RxPackets >= counter.RxDropped + counter.RxExpired + delivered

\* C7: RxPackets >= RxExpired + delivered.
C7_Counters == counter.RxPackets >= counter.RxExpired + delivered

\* packets were delivered, expired and counted lost
C7_Witness ==
    /\ delivered >= 1
    /\ counter.RxExpired >= 1
    /\ counter.RxDropped >= 1

\* C8 as claimed: after a window's restart, no packet put to the slaves
\* has a timestamp in the range before the restart.
C8_NoOldTimestampPut ==
    [][(Called /\ restartMax[Key(pkt')] > 0) =>
        \A i \in 1..Len(ret'.out) :
            ret'.out[i].timestamp > restartMax[Key(pkt')]]_vars

\* C8: after a window's restart, a packet with a timestamp in the range
\* before the restart and a sequence number below the window's start seq
\* is dropped as a stale reorder: it is neither cached nor put.
C8_OldBackwardPacketExpires ==
    [][(Called /\ restartMax[Key(pkt')] > 0
               /\ pkt'.timestamp <= restartMax[Key(pkt')]
               /\ pkt'.seq < Before.seq) =>
        /\ ret'.out = <<>>
        /\ ret'.expired = 1
        /\ instances' = instances]_vars

\* after a restart a packet of the old timestamp range was dropped as stale
C8_Witness ==
    /\ ret.kind = "stale"
    /\ restartMax[Key(pkt)] > 0
    /\ pkt.timestamp <= restartMax[Key(pkt)]

\* the windows that findAndAdd has made
Windows ==
    {d \in {Window(instances, k[1], k[2]) : k \in Keys} : d.cache # <<>>}

\* slot i of window d lies j positions after the head
SlotOffset(d, i) == (i - d.startIndex) % cacheSize

\* a packet is cached in window d after slot i, in window order
CachedAfter(d, i) ==
    \E j \in DOMAIN d.cache :
        d.cache[j] # Nil /\ SlotOffset(d, j) > SlotOffset(d, i)

\* C13: between cacheLookup calls 0 <= startIndex < cacheSize, and every
\* occupied slot i holds the packet with the sequence number
\* seq + ((i - startIndex) mod cacheSize).
C13_SlotHoldsItsSeq ==
    \A d \in Windows :
        /\ d.startIndex \in 0..(cacheSize - 1)
        /\ \A i \in DOMAIN d.cache :
              d.cache[i] # Nil => d.cache[i].seq = d.seq + SlotOffset(d, i)

\* two packets are cached, one of them in a slot the ring wrapped to
C13_Witness ==
    \E d \in Windows :
        /\ CachedCount(d) >= 2
        /\ \E i \in DOMAIN d.cache : d.cache[i] # Nil /\ i < d.startIndex

\* C14: between cacheLookup calls timestamp[i] is non-zero exactly for the
\* slots that hold a packet or lie before a cached packet in the window;
\* so a slot the head has moved past has its timestamp zeroed, and no
\* occupied or awaited slot has.
C14_TimestampKnowledge ==
    \A d \in Windows :
        \A i \in DOMAIN d.cache :
            d.timestamp[i] # 0 <=> (d.cache[i] # Nil \/ CachedAfter(d, i))

\* C16: after every cacheLookup call the head slot cache[startIndex] is
\* empty.
C16_HeadEmpty == \A d \in Windows : d.cache[d.startIndex] = Nil

\* a call flushed the packet at the head and left a packet cached beyond
\* a gap
C16_Witness ==
    /\ Len(ret.out) >= 1
    /\ \E d \in Windows : CachedCount(d) >= 1

Max(a, b) == IF a >= b THEN a ELSE b

\* C17: after the call that detects a restart with the packet seq, the
\* start seq is max(seq - cacheSize, 1) and the restart packet is the only
\* cached packet, at offset seq - start seq from startIndex.  (Stated for
\* seq >= 2: the packet seq = 1 is seated at the head, offset 0, and the
\* same call puts it.)
C17_RestartReseats ==
    [][(Called /\ RestartCall /\ pkt'.seq >= 2) =>
        /\ After.seq = Max(pkt'.seq - cacheSize, 1)
        /\ CachedCount(After) = 1
        /\ After.cache[Mask(After.startIndex + pkt'.seq - After.seq,
                            cacheSize)] = pkt']_vars

\* C19: the start seq of a window does not decrease from the end of one
\* call to the end of the next, unless the call detected a restart.
C19_StartSeqMonotonic ==
    [][(Called /\ ~RestartCall) => After.seq >= Before.seq]_vars

\* after a restart, a call moved the start seq over a lost packet
C19_Witness ==
    /\ ret.kind = "insert"
    /\ restartMax[Key(pkt)] > 0
    /\ ret.dropped >= 1
    /\ Len(ret.out) >= 1

\* C20: in every call that is not a stale-reorder drop, the start seq
\* advances, from where the first packet or a restart seated it, by the
\* number of packets put plus the dropped value returned, and the window's
\* dropped counter grows by the dropped value returned.
C20_ExactAccounting ==
    [][(Called /\ ~StaleCall) =>
        /\ After.seq - ret'.base = Len(ret'.out) + ret'.dropped
        /\ After.dropped = Before.dropped + ret'.dropped]_vars

\* a call passed an empty head slot, a bulk gap and the packet it put
C20_Witness ==
    /\ ret.gap >= 1
    /\ ret.forced > ret.gap
    /\ Len(ret.out) >= 1

(***************************************************************************)
(* Scripted feeds: the datagrams of feed arrive in order, one findAndAdd   *)
(* call each; counter.RxPackets of them have arrived.                      *)
(***************************************************************************)
FeedNext ==
    /\ counter.RxPackets < Len(feed)
    /\ FindAndAddStep(PacketBuffer(feed[counter.RxPackets + 1]), 1)
    /\ outAll' = outAll \o PutSeqs(ret'.out)
    /\ UNCHANGED <<tunnelVars, configured, cacheSize, slaveCount, batch, pc,
                   feed>>

FeedDone == feed # <<>> /\ counter.RxPackets = Len(feed)

\* the sender's monotonic clock: a timestamp for each sequence number
Clocks(K) ==
    {t \in [1..K -> Timestamps] : \A i \in 1..(K - 1) : t[i] <= t[i + 1]}

\* the arrival orders of 1..K in which no packet arrives after a packet
\* whose sequence number is C or more higher
Orders(K, C) ==
    {p \in [1..K -> 1..K] :
        /\ \A i, j \in 1..K : i # j => p[i] # p[j]
        /\ \A i, j \in 1..K : i < j => p[j] + C > p[i]}

PermFeeds(C) ==
    UNION {{[i \in 1..K |-> Datagram(Trident1, 0, p[i], t[p[i]], TRUE)] :
               p \in Orders(K, C), t \in Clocks(K)} : K \in 1..MaxPerm}

\* 1..K in order with the sequence number m left out
Omit(K, m) == [i \in 1..(K - 1) |-> IF i < m THEN i ELSE i + 1]

OmitFeeds ==
    UNION {{[i \in 1..(K - 1) |->
                Datagram(Trident1, 0, Omit(K, m)[i], t[Omit(K, m)[i]], TRUE)] :
               m \in 1..K, t \in Clocks(K)} : K \in 2..MaxFeed}

\* SpecPerm: a fresh window is fed a permutation of 1..K
InitPerm ==
    /\ InitAdapter(0..MaxCacheSize, {2})
    /\ feed \in PermFeeds(cacheSize)

SpecPerm == InitPerm /\ [][FeedNext]_vars

\* SpecOmit: a fresh window is fed 1..K in order with one packet omitted
InitOmit ==
    /\ InitAdapter(0..MaxCacheSize, {2})
    /\ feed \in OmitFeeds

SpecOmit == InitOmit /\ [][FeedNext]_vars

\* the timestamps of the feed lie within TRIDENT_TIMEOUT of each other
WithinTimeout ==
    \A i, j \in 1..Len(feed) :
        feed[i].timestamp - feed[j].timestamp <= TRIDENT_TIMEOUT

Identity(K) == [i \in 1..K |-> i]

\* C2 as claimed: when the whole permutation has been fed, exactly 1..K
\* have been put to the slaves, in order, and RxDropped = 0.
C2_AnyPermutation ==
    FeedDone => (outAll = Identity(Len(feed)) /\ counter.RxDropped = 0)

\* C2: the same, for the permutations whose first packet to arrive is
\* seq 1 and whose timestamps lie within TRIDENT_TIMEOUT of each other.
C2_PermutationFromOne ==
    (FeedDone /\ feed[1].seq = 1 /\ WithinTimeout) =>
        (outAll = Identity(Len(feed)) /\ counter.RxDropped = 0)

\* a reordered feed longer than the window was delivered whole
C2_Witness ==
    /\ FeedDone
    /\ feed[1].seq = 1
    /\ WithinTimeout
    /\ Len(feed) > cacheSize
    /\ \E i \in 1..(Len(feed) - 1) : feed[i].seq > feed[i + 1].seq
    /\ outAll = Identity(Len(feed))

\* the sequence number the feed of SpecOmit leaves out
Omitted ==
    CHOOSE m \in 1..(Len(feed) + 1) :
        \A i \in 1..Len(feed) : feed[i].seq # m

\* the sequence numbers fed so far
Fed == {feed[i].seq : i \in 1..counter.RxPackets}

Range(s) == {s[i] : i \in 1..Len(s)}

\* a packet with seq >= m + cacheSize has been inserted
Overflowed == \E q \in Fed : q >= Omitted + cacheSize

OverflowCounted ==
    /\ counter.RxDropped = 1
    /\ {q \in Fed : q < Omitted + cacheSize} \subseteq Range(outAll)
    /\ StrictlyIncreasing(outAll)

\* C3 as claimed: in a feed of 1..K less m with timestamps within the
\* timeout, once a packet with seq >= m + cacheSize has been inserted
\* RxDropped is 1 and stays 1, and the packets received below
\* m + cacheSize have been put in order.
C3_OverflowAnyOmission == (WithinTimeout /\ Overflowed) => OverflowCounted

\* C3: the same, for an omitted m > 1.
C3_OverflowCountsOne ==
    (WithinTimeout /\ Omitted > 1 /\ Overflowed) => OverflowCounted

\* the loss was counted by overflow and the feed went on after it
C3_Witness ==
    /\ FeedDone
    /\ WithinTimeout
    /\ Omitted > 1
    /\ cacheSize >= 2
    /\ \E i \in 1..(Len(feed) - 1) : feed[i].seq >= Omitted + cacheSize
    /\ counter.RxDropped = 1

\* C4: in a feed of 1..K less m (1 < m < K) in which a packet after m that
\* still fits the window (seq < m + cacheSize) has a timestamp more than
\* TRIDENT_TIMEOUT above that of the first packet after m, the insert of
\* that packet counts m lost by timeout and m stays the only packet counted
\* lost: RxDropped = 1 when the feed is done.
C4_TimeoutCountsOne ==
    (FeedDone /\ Omitted > 1 /\ Omitted <= Len(feed)
       /\ \E i \in 1..Len(feed) :
             /\ feed[i].seq > Omitted
             /\ feed[i].seq < Omitted + cacheSize
             /\ feed[i].timestamp - feed[Omitted].timestamp > TRIDENT_TIMEOUT)
    => counter.RxDropped = 1

(***************************************************************************)
(* SpecOrder: a fresh window is fed the packets first, first + 1, ... in   *)
(* sequence order with no gap, under any monotonic clock.                  *)
(***************************************************************************)
OrderFeeds ==
    UNION {{[i \in 1..K |->
                Datagram(Trident1, 0, first + i - 1, t[i], TRUE)] :
               first \in 1..2, t \in Clocks(K)} : K \in 1..MaxOrder}

InitOrder ==
    /\ InitAdapter(0..MaxCacheSize, {2})
    /\ feed \in OrderFeeds

SpecOrder == InitOrder /\ [][FeedNext]_vars

\* C15: when the packets arrive in sequence order with no gap, whatever
\* their non-decreasing timestamps, every call puts exactly the inserted
\* packet, returns dropped = 0 and advances the start seq by exactly 1.
C15_InOrderPassThrough ==
    [][Called =>
        /\ PutSeqs(ret'.out) = <<pkt'.seq>>
        /\ ret'.dropped = 0
        /\ After.seq = pkt'.seq + 1]_vars

(***************************************************************************)
(* SpecJump: one trident sends packets whose sequence numbers jump up to   *)
(* MaxJump window sizes ahead.                                             *)
(***************************************************************************)
InitJump ==
    /\ InitAdapter({1, 2}, {2})
    /\ feed = <<>>

ReceiveJump ==
    /\ pool.acquired < MaxJumpPackets
    /\ \E seq \in 1..(MaxJump * cacheSize + 2) :
          FindAndAddStep(PacketBuffer(Datagram(Trident1, 0, seq, 1, TRUE)), 1)
    /\ UNCHANGED <<tunnelVars, configured, cacheSize, slaveCount, batch, pc,
                   feed, outAll>>

SpecJump == InitJump /\ [][ReceiveJump]_vars

Min(a, b) == IF a <= b THEN a ELSE b

\* offset = seq - start seq of the call, the start seq taken after the
\* first packet or a restart has seated it
OffsetOfCall == pkt'.seq - ret'.base

\* C18: before the packet is placed the head moves by exactly
\* max(0, offset - cacheSize + 1) positions and the packet is placed at
\* offset min(offset, cacheSize - 1); offset = cacheSize - 1 takes no
\* forced step, offset = cacheSize exactly one, and offsets of
\* 2 * cacheSize and more take the bulk branch after cacheSize steps.
C18_ForcedAdvanceMinimal ==
    [][(Called /\ ~StaleCall) =>
        /\ ret'.forced = Max(0, OffsetOfCall - cacheSize + 1)
        /\ ret'.placed = Min(OffsetOfCall, cacheSize - 1)
        /\ OffsetOfCall = cacheSize - 1 => ret'.forced = 0
        /\ OffsetOfCall = cacheSize => (ret'.forced = 1 /\ ret'.gap = 0)
        /\ OffsetOfCall >= 2 * cacheSize <=> ret'.gap >= 1
        /\ ret'.gap >= 1 => ret'.forced = cacheSize + ret'.gap]_vars

\* a packet 10 * cacheSize ahead of an empty window took the bulk branch
\* and was placed in the last slot
C18_Witness ==
    /\ ret.kind = "insert"
    /\ cacheSize = 2
    /\ pkt.seq - ret.base = 10 * cacheSize
    /\ ret.gap >= 1
    /\ ret.placed = cacheSize - 1

(***************************************************************************)
(* SpecRun: the receive loop run.  The read loop acquires a buffer and     *)
(* reads a datagram into it, until the batch is full or the read times     *)
(* out; the batch loop then decodes each packet of the batch and hands the *)
(* valid ones to findAndAdd.                                               *)
(***************************************************************************)
RunDatagrams ==
    {Datagram(Trident1, index, seq, 1, wellFormed) :
        index \in {0, TRIDENT_DISPATCHER_MAX}, seq \in 1..MaxRunSeq,
        wellFormed \in BOOLEAN}

\* lines 305-317: a datagram is read into a fresh buffer
ReadFromUDP ==
    /\ pc = "read"
    /\ pool.acquired < MaxPackets
    /\ \E dg \in RunDatagrams : batch' = Append(batch, dg)
    /\ pool' = [pool EXCEPT !.acquired = @ + 1]
    /\ pc' = IF Len(batch') = BATCH_SIZE THEN "process" ELSE "read"
    /\ UNCHANGED <<tunnelVars, configured, cacheSize, slaveCount, instances,
                   counter, delivered, pkt, ret, lastPut, epochPut,
                   restartMax, feed, outAll>>

\* lines 305-311: the read times out; the buffer acquired for it is in no
\* batch slot
ReadTimeout ==
    /\ pc = "read"
    /\ pool.acquired < MaxPackets
    /\ pool' = [pool EXCEPT !.acquired = @ + 1]
    /\ pc' = IF batch = <<>> THEN "read" ELSE "process"
    /\ UNCHANGED <<tunnelVars, configured, cacheSize, slaveCount, instances,
                   counter, batch, delivered, pkt, ret, lastPut, epochPut,
                   restartMax, feed, outAll>>

\* lines 320-325: a packet of the batch with an invalid header
ProcessInvalid ==
    /\ pc = "process"
    /\ batch # <<>>
    /\ DecodeHeader(Head(batch))
    /\ counter' = [counter EXCEPT !.RxErrors = @ + 1]
    /\ pool' = [pool EXCEPT !.released = @ + 1]
    /\ batch' = Tail(batch)
    /\ pc' = IF batch' = <<>> THEN "read" ELSE "process"
    /\ UNCHANGED <<tunnelVars, configured, cacheSize, slaveCount, instances,
                   delivered, pkt, ret, lastPut, epochPut, restartMax, feed,
                   outAll>>

\* lines 326-327: a valid packet of the batch
ProcessValid ==
    /\ pc = "process"
    /\ batch # <<>>
    /\ ~DecodeHeader(Head(batch))
    /\ FindAndAddStep(PacketBuffer(Head(batch)), 0)
    /\ batch' = Tail(batch)
    /\ pc' = IF batch' = <<>> THEN "read" ELSE "process"
    /\ UNCHANGED <<tunnelVars, configured, cacheSize, slaveCount, feed,
                   outAll>>

NextRun == ReadFromUDP \/ ReadTimeout \/ ProcessInvalid \/ ProcessValid

InitRun ==
    /\ InitAdapter(0..MaxCacheSize, {2})
    /\ feed = <<>>

SpecRun == InitRun /\ [][NextRun]_vars

\* the packets cached in all the windows
CachedAll ==
    LET made == {k \in Keys : instances[k[1]] # NoInstance}
        held(k) == CachedCount(instances[k[1]][k[2]])
        RECURSIVE Sum(_)
        Sum(S) == IF S = {} THEN 0
                  ELSE LET k == CHOOSE x \in S : TRUE
                       IN held(k) + Sum(S \ {k})
    IN Sum(made)

\* C9: every buffer acquired is in the batch, in a window slot, put to a
\* slave or released to the pool:
\* acquired = released + delivered + cached + in the batch.
C9_PoolDiscipline ==
    pool.acquired = pool.released + delivered + CachedAll + Len(batch)

(***************************************************************************)
(* SpecFan: several tridents and dispatchers send to an adapter with a     *)
(* power of two of slaves.                                                 *)
(***************************************************************************)
InitFan ==
    /\ InitAdapter({2}, {Pow2(k) : k \in 0..MaxSlavesLog})
    /\ feed = <<>>

\* the windows the traffic of SpecFan belongs to
FanKeys == {<<Trident1, 0>>, <<Trident1, 1>>, <<Trident2, 1>>}

ReceiveFrom ==
    /\ pool.acquired < MaxFanPackets
    /\ \E k \in FanKeys, seq \in 1..MaxFanSeq :
          FindAndAddStep(PacketBuffer(Datagram(k[1], k[2], seq, 1, TRUE)), 1)
    /\ UNCHANGED <<tunnelVars, configured, cacheSize, slaveCount, batch, pc,
                   feed, outAll>>

SpecFan == InitFan /\ [][ReceiveFrom]_vars

\* C10: every packet put to the slaves by a call for the window of
\* (tridentIp, index) goes to the slave calcHash(tridentIp, index) mod N, an
\* index of 0..N-1 that is the same for every packet of the window.
C10_StableFanOut ==
    \A i \in 1..Len(ret.out) :
        /\ ret.out[i].slave \in 0..(slaveCount - 1)
        /\ ret.out[i].slave = calcHash(pkt.tridentIp, pkt.index) % slaveCount
        /\ ret.out[i].tridentIp = pkt.tridentIp
        /\ ret.out[i].index = pkt.index

\* with several slaves, a call put a packet cached by an earlier call
\* while another trident has a window too
C10_Witness ==
    /\ Len(ret.out) >= 2
    /\ slaveCount >= 2
    /\ \E ip \in Tridents : ip # pkt.tridentIp /\ instances[ip] # NoInstance

(***************************************************************************)
(* SpecNew: NewTridentAdapter builds the adapter from the configured cache *)
(* size.  The configured sizes lie around the powers of two up to 1 << 30  *)
(* and above 1 << 30.                                                      *)
(***************************************************************************)
SizeInputs ==
    {v \in {Pow2(k) + e : k \in 0..MAX_SHIFT, e \in (0 - MaxDelta)..MaxDelta}
          \cup {Pow2(MAX_SHIFT) + Pow2(k) + e :
                   k \in 0..(MAX_SHIFT - 1), e \in (0 - MaxDelta)..MaxDelta} :
        v >= 0}

\* before the call of NewTridentAdapter
InitNew ==
    /\ configured \in SizeInputs
    /\ cacheSize = 0
    /\ slaveCount = 2
    /\ instances = [ip \in Tridents |-> NoInstance]
    /\ counter = [RxPackets |-> 0, RxDropped |-> 0, RxExpired |-> 0,
                  RxErrors |-> 0]
    /\ batch = <<>>
    /\ pc = "new"
    /\ pool = [acquired |-> 0, released |-> 0]
    /\ delivered = 0
    /\ pkt = Nil
    /\ ret = NoRet
    /\ lastPut = [k \in Keys |-> 0]
    /\ epochPut = [k \in Keys |-> 0]
    /\ restartMax = [k \in Keys |-> 0]
    /\ feed = <<>>
    /\ outAll = <<>>
    /\ l3Packet = <<>>
    /\ sent = Nil
    /\ tunnel = DefaultTunnel

\* lines 97-99: cacheSize: uint64(minPowerOfTwo(cacheSize))
NewTridentAdapter ==
    /\ pc = "new"
    /\ cacheSize' = minPowerOfTwo(configured)
    /\ pc' = "read"
    /\ UNCHANGED <<tunnelVars, configured, slaveCount, instances, counter,
                   batch, pool, delivered, pkt, ret, lastPut, epochPut,
                   restartMax, feed, outAll>>

SpecNew == InitNew /\ [][NewTridentAdapter]_vars

IsPowerOfTwo(n) == \E k \in 0..30 : n = Pow2(k)

\* C11: the adapter's cacheSize is a power of two; for a configured size
\* v <= 2^30 it is the smallest power of two >= v (v itself when v is a
\* power of two), and for v > 2^30 it is 2^30.
C11_MinPowerOfTwo ==
    pc = "read" =>
        /\ IsPowerOfTwo(cacheSize)
        /\ configured <= Pow2(30) =>
              /\ cacheSize >= configured
              /\ \A k \in 0..30 : Pow2(k) >= configured => cacheSize <= Pow2(k)
              /\ IsPowerOfTwo(configured) => cacheSize = configured
        /\ configured > Pow2(30) => cacheSize = Pow2(30)

\* an adapter was built from a size above the cap
C11_Witness ==
    /\ pc = "read"
    /\ configured > Pow2(30)
    /\ cacheSize = Pow2(30)

(***************************************************************************)
(* SpecDecap: a sender encapsulates a packet, the slice after the Ethernet *)
(* header (possibly cut short) is handed to TunnelInfo.Decapsulate.  The   *)
(* packets are built as the benchmarks of the decapsulator build theirs:   *)
(* a zeroed buffer with the fields written at their offsets.               *)
(***************************************************************************)
PACKET_SIZE == 256

\* packet := [256]byte{}
ZeroPacket == [i \in 0..(PACKET_SIZE - 1) |-> 0]

\* packet[OFFSET_IP_PROTOCOL-ETH_HEADER_SIZE] = byte(protocol)
SetProtocol(p, protocol) ==
    [p EXCEPT ![OFFSET_IP_PROTOCOL - ETH_HEADER_SIZE] = Uint8(protocol)]

\* SetDport with the slip of writing the low byte first.
SetDportLowFirst(p, port) ==
    [p EXCEPT ![OFFSET_DPORT - ETH_HEADER_SIZE] = BitAnd(port, 255),
              ![OFFSET_DPORT - ETH_HEADER_SIZE + 1] = Shr(port, 8)]

\* packet[OFFSET_DPORT-ETH_HEADER_SIZE] = port >> 8, [...+1] = port & 0xFF
SetDport(p, port) ==
    [p EXCEPT ![OFFSET_DPORT - ETH_HEADER_SIZE] = Shr(port, 8),
              ![OFFSET_DPORT - ETH_HEADER_SIZE + 1] = BitAnd(port, 255)]

\* packet[OFFSET_VXLAN_FLAGS-ETH_HEADER_SIZE] = flags
SetVxlanFlags(p, flags) ==
    [p EXCEPT ![OFFSET_VXLAN_FLAGS - ETH_HEADER_SIZE] = flags]

\* the sender's big-endian fields of 2, 3 and 4 bytes
PutUint16(p, off, v) ==
    [p EXCEPT ![off] = Shr(v, 8), ![off + 1] = v % 256]
PutUint24(p, off, v) ==
    [p EXCEPT ![off] = Shr(v, 16), ![off + 1] = Shr(v, 8) % 256,
              ![off + 2] = v % 256]
PutUint32(p, off, v) ==
    [p EXCEPT ![off] = Shr(v, 24), ![off + 1] = Shr(v, 16) % 256,
              ![off + 2] = Shr(v, 8) % 256, ![off + 3] = v % 256]

\* packet[:n]
Truncate(p, n) == [i \in 0..(n - 1) |-> p[i]]

\* The bytes of the packet the sender f encapsulated.  f.l4 is the word at
\* OFFSET_DPORT: the destination port of UDP and TCP, the protocol type of
\* GRE; f.erspan is the first word of the ERSPAN header.
Encapsulate(f) ==
    LET p1 == SetProtocol(ZeroPacket, f.protocol)
        p2 == PutUint32(p1, OFFSET_SIP - ETH_HEADER_SIZE, f.src)
        p3 == PutUint32(p2, OFFSET_DIP - ETH_HEADER_SIZE, f.dst)
        p4 == SetDport(p3, f.l4)
        p5 == IF f.protocol = IPProtocolGRE
              THEN PutUint16(p4, OFFSET_ERSPAN - ETH_HEADER_SIZE, f.erspan)
              ELSE PutUint24(SetVxlanFlags(p4, f.flags),
                             OFFSET_VXLAN_VNI - ETH_HEADER_SIZE, f.vni)
    IN Truncate(p5, f.len)

\* the lengths of the slices: whole, and cut inside each header
SliceLens == {0, 9, 10, 23, 24, 31, 32, 35, 36, PACKET_SIZE}

Senders ==
    [protocol : {IPProtocolTCP, IPProtocolUDP, IPProtocolGRE},
     src : {0, IPv4(2, 2, 2, 2)},
     dst : {IPv4(1, 1, 1, 1)},
     l4 : {VXLAN_PORT, VXLAN_PORT + 1, GRE_PROTO_ERSPAN_II,
           GRE_PROTO_ERSPAN_III},
     erspan : {0, 100, Pow2(10) + 100, Pow2(16) - 1},
     flags : {0, VXLAN_FLAGS, 255 - VXLAN_FLAGS, 255},
     vni : {0, 123, Pow2(24) - 1},
     len : SliceLens]

\* the fields that the packet of a sender carries on the wire
OnWire(f) ==
    IF f.protocol = IPProtocolGRE THEN f.flags = 0 /\ f.vni = 0
    ELSE f.erspan = 0

InitDecap ==
    /\ configured = 1
    /\ cacheSize = minPowerOfTwo(configured)
    /\ slaveCount = 2
    /\ instances = [ip \in Tridents |-> NoInstance]
    /\ counter = [RxPackets |-> 0, RxDropped |-> 0, RxExpired |-> 0,
                  RxErrors |-> 0]
    /\ batch = <<>>
    /\ pc = "decapsulate"
    /\ pool = [acquired |-> 0, released |-> 0]
    /\ delivered = 0
    /\ pkt = Nil
    /\ ret = NoRet
    /\ lastPut = [k \in Keys |-> 0]
    /\ epochPut = [k \in Keys |-> 0]
    /\ restartMax = [k \in Keys |-> 0]
    /\ feed = <<>>
    /\ outAll = <<>>
    /\ sent \in {f \in Senders : OnWire(f)}
    /\ l3Packet = Encapsulate(sent)
    /\ tunnel = DefaultTunnel

\* actual := &TunnelInfo{}; actual.Decapsulate(packet[l2Len:])
DecapsulateStep ==
    /\ pc = "decapsulate"
    /\ tunnel' = Decapsulate(l3Packet)
    /\ pc' = "done"
    /\ UNCHANGED <<l3Packet, sent, configured, cacheSize, slaveCount,
                   instances, counter, batch, pool, delivered, pkt, ret,
                   lastPut, epochPut, restartMax, feed, outAll>>

SpecDecap == InitDecap /\ [][DecapsulateStep]_vars

\* the TunnelInfo of the packet of sender f, when no byte is missing
Classified(f) ==
    IF f.protocol = IPProtocolGRE /\ f.l4 = GRE_PROTO_ERSPAN_II
    THEN TunnelInfo(f.src, f.dst, f.erspan % 1024, "ERSPAN")
    ELSE IF f.protocol = IPProtocolGRE /\ f.l4 = GRE_PROTO_ERSPAN_III
    THEN TunnelInfo(f.src, f.dst, 0, "ERSPAN")
    ELSE IF /\ f.protocol = IPProtocolUDP
            /\ f.l4 = VXLAN_PORT
            /\ (f.flags \div 8) % 2 = 1
    THEN TunnelInfo(f.src, f.dst, f.vni, "VXLAN")
    ELSE DefaultTunnel

====
